---- MODULE Spec2Model ----
(***************************************************************************)
(* Server actions of the finance dashboard that mutate the store:          *)
(*   bulkDeleteTransactions, updateDefaultAccount (src/actions/account.js) *)
(*   createAccount, getUserAccounts (src/unnamed/part_000, the dashboard   *)
(*   actions).                                                             *)
(* Every `await db....` of a server action is one step against the store;  *)
(* the steps of concurrent requests interleave.  The callback handed to    *)
(* db.$transaction is one isolated all-or-nothing step.                    *)
(***************************************************************************)
EXTENDS Integers, Sequences, FiniteSets, TLC

VARIABLES
    account,      \* table Account: id -> row or NoAccount
    transaction,  \* table Transaction: id -> row or NoTransaction
    pc,           \* per request slot: the await the server action is suspended at
    call,         \* per request slot: the local variables of the running action
    response,     \* what the step just taken handed back to its caller, if it ended an action
    started,      \* number of requests the server has accepted so far
    oneAtATime    \* TRUE in the runs where a request arrives only when none is running

vars == <<account, transaction, pc, call, response, started, oneAtATime>>

----------------------------------------------------------------------------
(* Bounds of the model *)

MaxAccounts == 4      \* rows the Account table can hold
MaxTx == 2            \* rows of the Transaction table in the initial state
MaxRequests == 2      \* requests the server accepts in one run

Procs == {"r1", "r2"}             \* concurrent requests (browser tabs)
AccountIds == 1..MaxAccounts
TxIds == 1..MaxTx

----------------------------------------------------------------------------
(* The identity collaborator and the User table (never written here) *)

NoAuth == "null"
NoUser == "null"
\* the sessions requests arrive from: signed out, user u1, a Clerk user
\* without a User row; u2 is the other user, whose rows u1 must not touch
ClerkIds == {NoAuth, "clerk_1", "clerk_9"}

\* db.user.findUnique({ where: { clerkUserId } })
findUser(clerkUserId) ==
    CASE clerkUserId = "clerk_1" -> "u1"
      [] clerkUserId = "clerk_2" -> "u2"
      [] OTHER -> NoUser

UserIds == {"u1", "u2"}

\* the first lines of every action: auth(), then the user lookup
AuthError(clerkUserId) ==
    IF clerkUserId = NoAuth THEN "Unauthorized"
    ELSE IF findUser(clerkUserId) = NoUser THEN "User not found"
    ELSE "none"

----------------------------------------------------------------------------
(* Rows *)

NoAccount == [userId |-> NoUser, isDefault |-> FALSE, balance |-> 0]
NoTransaction == [userId |-> NoUser, accountId |-> 0, type |-> "NONE", amount |-> 0]

AccountsOf(acc, u) == {a \in AccountIds : acc[a] # NoAccount /\ acc[a].userId = u}
DefaultsOf(acc, u) == {a \in AccountsOf(acc, u) : acc[a].isDefault}

----------------------------------------------------------------------------
(* JavaScript values of the balance aggregation.                           *)
(* transaction.amount is a Prisma Decimal (decimal.js; serializeDecimal    *)
(* calls .toNumber() on it).  A value is a number, a string or a Decimal;  *)
(* strings are sequences of one-character strings.                         *)

JsNumber(n) == [kind |-> "number", num |-> n, str |-> <<>>]
JsString(s) == [kind |-> "string", num |-> 0, str |-> s]
JsDecimal(n) == [kind |-> "Decimal", num |-> n, str |-> <<>>]

DigitChars == <<"0", "1", "2", "3", "4", "5", "6", "7", "8", "9">>

RECURSIVE NatToString(_)
NatToString(n) ==
    IF n < 10 THEN <<DigitChars[n + 1]>>
    ELSE NatToString(n \div 10) \o <<DigitChars[(n % 10) + 1]>>

\* Number.prototype.toString / Decimal.prototype.toString on integers
NumberToString(n) == IF n < 0 THEN <<"-">> \o NatToString(-n) ELSE NatToString(n)

\* ToPrimitive: a Decimal has valueOf() returning its decimal string and no
\* Symbol.toPrimitive, so under `+` it is a string, under unary `-` a number.
ToPrimitive(v) == IF v.kind = "Decimal" THEN JsString(NumberToString(v.num)) ELSE v

ToStr(v) == IF v.kind = "string" THEN v.str ELSE NumberToString(v.num)

\* a + b
JsAdd(a, b) ==
    LET pa == ToPrimitive(a)
        pb == ToPrimitive(b)
    IN  IF pa.kind = "string" \/ pb.kind = "string"
        THEN JsString(ToStr(pa) \o ToStr(pb))
        ELSE JsNumber(pa.num + pb.num)

\* -a  (ToNumber of the primitive)
JsNegate(a) == JsNumber(-a.num)

DigitValue(c) == CHOOSE d \in 0..9 : DigitChars[d + 1] = c
IsDigit(c) == \E d \in 0..9 : DigitChars[d + 1] = c

RECURSIVE DigitsToNat(_)
DigitsToNat(s) ==
    IF Len(s) = 0 THEN 0
    ELSE 10 * DigitsToNat(SubSeq(s, 1, Len(s) - 1)) + DigitValue(s[Len(s)])

\* The store reading a string handed to a Decimal column: an optional sign
\* followed by digits, anything else is rejected.
IsDecimalString(s) ==
    LET body == IF Len(s) > 0 /\ s[1] = "-" THEN Tail(s) ELSE s
    IN  Len(body) > 0 /\ \A i \in 1..Len(body) : IsDigit(body[i])

DecimalOfString(s) ==
    IF s[1] = "-" THEN -DigitsToNat(Tail(s)) ELSE DigitsToNat(s)

\* what `increment: v` adds, when the store accepts v
IncrementValid(v) == v.kind # "string" \/ IsDecimalString(v.str)
IncrementAmount(v) == IF v.kind = "string" THEN DecimalOfString(v.str) ELSE v.num

----------------------------------------------------------------------------
(* Request slots *)

\* a request is served in the lowest-numbered free slot
Slots == <<"r1", "r2">>
FreeSlot(p) ==
    /\ pc[p] = "idle"
    /\ oneAtATime => \A q \in Procs : pc[q] = "idle"
    /\ \A i, j \in 1..Len(Slots) : (Slots[j] = p /\ i < j) => pc[Slots[i]] # "idle"

IsDefaultColumn(acc) == [a \in AccountIds |-> acc[a].isDefault]

\* locals of a running action; pre is the isDefault column when it started
NoCall ==
    [op |-> "none", userId |-> NoUser, transactionIds |-> {},
     accountBalanceChanges |-> <<>>, accountId |-> 0,
     balance |-> <<>>, isDefault |-> "undefined", balanceFloat |-> 0,
     existingAccounts |-> 0,
     shouldBeDefault |-> "undefined", pre |-> [a \in AccountIds |-> FALSE]]

NoData == [id |-> 0, userId |-> NoUser, isDefault |-> FALSE, balance |-> 0]

\* the request as the caller made it and the isDefault column it started
\* from: the other locals computed since are dropped
Request(c) == [c EXCEPT !.accountBalanceChanges = <<>>, !.balanceFloat = 0]

\* storeFailed: the store failed under the action (a fault of the environment)
NoResponse ==
    [slot |-> "none", kind |-> "none", success |-> FALSE, error |-> "none",
     data |-> NoData, request |-> NoCall, storeFailed |-> FALSE, rows |-> {}]

\* return { success: true, data }
Success(p, c, data) ==
    [slot |-> p, kind |-> "returned", success |-> TRUE, error |-> "none",
     data |-> data, request |-> Request(c), storeFailed |-> FALSE, rows |-> {}]
\* a catch that throws the error on, as the catch of createAccount does
FailureRethrown(p, c, message, storeFailed) ==
    [slot |-> p, kind |-> "thrown", success |-> FALSE, error |-> message,
     data |-> NoData, request |-> Request(c), storeFailed |-> storeFailed, rows |-> {}]

\* catch (error) { return { success: false, error: error.message } }
Failure(p, c, message, storeFailed) ==
    [slot |-> p, kind |-> "returned", success |-> FALSE, error |-> message,
     data |-> NoData, request |-> Request(c), storeFailed |-> storeFailed, rows |-> {}]
\* catch (error) { throw new Error(error.message) }
Thrown(p, c, message) ==
    [slot |-> p, kind |-> "thrown", success |-> FALSE, error |-> message,
     data |-> NoData, request |-> Request(c), storeFailed |-> FALSE, rows |-> {}]
\* return serializedAccounts
Returned(p, c, rows) ==
    [slot |-> p, kind |-> "returned", success |-> FALSE, error |-> "none",
     data |-> NoData, request |-> Request(c), storeFailed |-> FALSE, rows |-> rows]

RowData(id, row) ==
    [id |-> id, userId |-> row.userId, isDefault |-> row.isDefault, balance |-> row.balance]

----------------------------------------------------------------------------
(* bulkDeleteTransactions (src/actions/account.js) *)

\* the where clause without its userId line
MatchingTransactionsAnyOwner(trn, transactionIds, userId) ==
    {t \in transactionIds : trn[t] # NoTransaction}

\* rows matched by { id: { in: transactionIds }, userId: user.id }
MatchingTransactions(trn, transactionIds, userId) ==
    {t \in transactionIds : trn[t] # NoTransaction /\ trn[t].userId = userId}

\* findMany has no orderBy: the rows come back in an order the store chooses
Orderings(S) ==
    {q \in [1..Cardinality(S) -> S] : \A i, j \in 1..Cardinality(S) : q[i] = q[j] => i = j}

\* const change = transaction.type === "EXPENSE" ? transaction.amount : -transaction.amount
Change(row) ==
    IF row.type = "EXPENSE" THEN JsDecimal(row.amount) ELSE JsNegate(JsDecimal(row.amount))

\* acc[id] || 0
OrZero(v) ==
    IF (v.kind = "number" /\ v.num = 0) \/ (v.kind = "string" /\ v.str = <<>>)
    THEN JsNumber(0) ELSE v

\* acc[transaction.accountId] = (acc[transaction.accountId] || 0) + change
\* acc is the object in key insertion order, as Object.entries walks it
Accumulate(acc, row) ==
    IF \E i \in 1..Len(acc) : acc[i].accountId = row.accountId
    THEN [i \in 1..Len(acc) |->
            IF acc[i].accountId = row.accountId
            THEN [accountId |-> row.accountId,
                  balanceChange |-> JsAdd(OrZero(acc[i].balanceChange), Change(row))]
            ELSE acc[i]]
    ELSE Append(acc, [accountId |-> row.accountId,
                      balanceChange |-> JsAdd(JsNumber(0), Change(row))])

\* transactions.reduce(..., {})
RECURSIVE Reduce(_, _, _)
Reduce(trn, order, acc) ==
    IF Len(order) = 0 THEN acc
    ELSE Reduce(trn, Tail(order), Accumulate(acc, trn[Head(order)]))

\* the deleteMany without the userId line of its where clause
deleteManyAnyOwner(trn, transactionIds, userId) ==
    [t \in TxIds |-> IF t \in transactionIds THEN NoTransaction ELSE trn[t]]

\* tx.transaction.deleteMany({ where: { id: { in: transactionIds }, userId } })
deleteMany(trn, transactionIds, userId) ==
    [t \in TxIds |->
        IF t \in MatchingTransactions(trn, transactionIds, userId)
        THEN NoTransaction ELSE trn[t]]

\* tx.account.update({ where: { id }, data: { balance: { increment } } })
\* throws when the row is missing or the store rejects the value
UpdateThrows(acc, entry) ==
    acc[entry.accountId] = NoAccount \/ ~IncrementValid(entry.balanceChange)

\* the update without its where clause: every row is incremented
IncrementBalanceEveryRow(acc, entry) ==
    [a \in AccountIds |->
        IF acc[a] = NoAccount THEN acc[a]
        ELSE [acc[a] EXCEPT !.balance = @ + IncrementAmount(entry.balanceChange)]]

IncrementBalance(acc, entry) ==
    [acc EXCEPT ![entry.accountId].balance = @ + IncrementAmount(entry.balanceChange)]

\* the for loop, entries 1..n applied in order
RECURSIVE ApplyChanges(_, _, _)
ApplyChanges(acc, changes, n) ==
    IF n = 0 THEN acc
    ELSE IncrementBalance(ApplyChanges(acc, changes, n - 1), changes[n])

\* The callback of db.$transaction.  Statement 0 is the deleteMany, statement i
\* the update of entry i.  fault is the statement at which the store fails
\* (Len(changes) + 1: the store does not fail).  The callback throws at the
\* first statement that fails or that the store rejects; the result is the
\* work done on the connection up to there.
TransactionCallback(acc, trn, c, fault) ==
    LET changes == c.accountBalanceChanges
        n == Len(changes)
        rejected == {i \in 1..n : UpdateThrows(acc, changes[i])}
        stops == {fault} \cup rejected \cup {n + 1}
        stop == CHOOSE k \in stops : \A j \in stops : k <= j
    IN  [threw |-> stop <= n,
         transaction |-> IF stop = 0 THEN trn
                         ELSE deleteMany(trn, c.transactionIds, c.userId),
         account |-> IF stop = 0 THEN acc ELSE ApplyChanges(acc, changes, stop - 1)]

\* the statements run one by one on the store, outside a transaction
dbTransactionNoRollback(acc, trn, work) ==
    [account |-> work.account, transaction |-> work.transaction]

\* db.$transaction(callback): commit what the callback did when it returns,
\* roll everything back when it throws
dbTransaction(acc, trn, work) ==
    IF work.threw
    THEN [account |-> acc, transaction |-> trn]
    ELSE [account |-> work.account, transaction |-> work.transaction]

\* auth, user lookup, findMany, reduce: up to the await of db.$transaction
bulkDeleteTransactions_findMany(p, clerkUserId, transactionIds) ==
    /\ FreeSlot(p)
    /\ started < MaxRequests
    /\ started' = started + 1
    /\ IF AuthError(clerkUserId) # "none"
       THEN /\ response' = Failure(p, [NoCall EXCEPT !.op = "bulkDeleteTransactions",
                                                      !.transactionIds = transactionIds],
                                   AuthError(clerkUserId), FALSE)
            /\ UNCHANGED <<pc, call>>
       ELSE \E order \in Orderings(MatchingTransactions(transaction, transactionIds,
                                                        findUser(clerkUserId))) :
            /\ call' = [call EXCEPT ![p] =
                  [NoCall EXCEPT !.op = "bulkDeleteTransactions",
                                 !.userId = findUser(clerkUserId),
                                 !.transactionIds = transactionIds,
                                 !.accountBalanceChanges = Reduce(transaction, order, <<>>)]]
            /\ pc' = [pc EXCEPT ![p] = "bd_transaction"]
            /\ response' = NoResponse
    /\ UNCHANGED <<account, transaction, oneAtATime>>

\* await db.$transaction(...), revalidatePath, return / catch
bulkDeleteTransactions_transaction(p, fault) ==
    /\ pc[p] = "bd_transaction"
    /\ fault \in 0..(Len(call[p].accountBalanceChanges) + 1)
    /\ LET work == TransactionCallback(account, transaction, call[p], fault)
           after == dbTransaction(account, transaction, work)
       IN  /\ account' = after.account
           /\ transaction' = after.transaction
           /\ response' = IF work.threw
                          THEN Failure(p, call[p], "transaction failed",
                                       fault <= Len(call[p].accountBalanceChanges))
                          ELSE Success(p, call[p], NoData)
    /\ pc' = [pc EXCEPT ![p] = "idle"]
    /\ call' = [call EXCEPT ![p] = NoCall]
    /\ UNCHANGED <<started, oneAtATime>>

----------------------------------------------------------------------------
(* updateDefaultAccount (src/actions/account.js) *)

\* the updateMany without the userId line of its where clause
updateManyClearDefaultAnyUser(acc, userId) ==
    [a \in AccountIds |->
        IF acc[a] # NoAccount /\ acc[a].isDefault
        THEN [acc[a] EXCEPT !.isDefault = FALSE] ELSE acc[a]]

\* db.account.updateMany({ where: { userId, isDefault: true }, data: { isDefault: false } })
updateManyClearDefault(acc, userId) ==
    [a \in AccountIds |->
        IF acc[a] # NoAccount /\ acc[a].userId = userId /\ acc[a].isDefault
        THEN [acc[a] EXCEPT !.isDefault = FALSE] ELSE acc[a]]

\* the row db.account.update({ where: { id, userId } }) finds; it throws without one
UpdateFindsRow(acc, accountId, userId) ==
    accountId \in AccountIds /\ acc[accountId] # NoAccount /\ acc[accountId].userId = userId

\* the update that leaves the row as it found it
updateSetDefaultNoWrite(acc, accountId) == acc

\* db.account.update({ where: { id, userId }, data: { isDefault: true } })
updateSetDefault(acc, accountId) == [acc EXCEPT ![accountId].isDefault = TRUE]

\* auth, user lookup and step 1, the updateMany: up to the await of step 2
updateDefaultAccount_updateMany(p, clerkUserId, accountId) ==
    /\ FreeSlot(p)
    /\ started < MaxRequests
    /\ started' = started + 1
    /\ LET c == [NoCall EXCEPT !.op = "updateDefaultAccount",
                               !.userId = findUser(clerkUserId),
                               !.accountId = accountId,
                               !.pre = IsDefaultColumn(account)]
       IN  IF AuthError(clerkUserId) # "none"
           THEN /\ response' = Failure(p, c, AuthError(clerkUserId), FALSE)
                /\ UNCHANGED <<pc, call, account>>
           ELSE /\ account' = updateManyClearDefault(account, findUser(clerkUserId))
                /\ call' = [call EXCEPT ![p] = c]
                /\ pc' = [pc EXCEPT ![p] = "ud_update"]
                /\ response' = NoResponse
    /\ UNCHANGED <<transaction, oneAtATime>>

\* step 2, the update, then revalidatePath and return / catch
updateDefaultAccount_update(p) ==
    /\ pc[p] = "ud_update"
    /\ IF UpdateFindsRow(account, call[p].accountId, call[p].userId)
       THEN /\ account' = updateSetDefault(account, call[p].accountId)
            /\ response' = Success(p, call[p],
                                   RowData(call[p].accountId, account'[call[p].accountId]))
       ELSE /\ account' = account
            /\ response' = Failure(p, call[p], "Record to update not found", FALSE)
    /\ pc' = [pc EXCEPT ![p] = "idle"]
    /\ call' = [call EXCEPT ![p] = NoCall]
    /\ UNCHANGED <<transaction, started, oneAtATime>>

----------------------------------------------------------------------------
(* createAccount, getUserAccounts (src/unnamed/part_000) *)

NaN == [isNaN |-> TRUE, value |-> 0]

\* the digits s starts with, after position i
RECURSIVE DigitPrefix(_, _)
DigitPrefix(s, i) ==
    IF i <= Len(s) /\ IsDigit(s[i]) THEN <<s[i]>> \o DigitPrefix(s, i + 1) ELSE <<>>

\* parseFloat(data.balance): the longest numeric prefix, NaN without one
parseFloat(s) ==
    LET negative == Len(s) > 0 /\ s[1] = "-"
        digits == DigitPrefix(s, IF negative THEN 2 ELSE 1)
    IN  IF digits = <<>> THEN NaN
        ELSE [isNaN |-> FALSE,
              value |-> IF negative THEN -DigitsToNat(digits) ELSE DigitsToNat(digits)]

\* the requested flag taken as it is
shouldBeDefaultAsRequested(existingAccounts, isDefault) == isDefault

\* const shouldBeDefault = existingAccounts.length === 0 ? true : data.isDefault
shouldBeDefault(existingAccounts, isDefault) ==
    IF existingAccounts = 0 THEN "true" ELSE isDefault

\* if (shouldBeDefault)
Truthy(v) == v = "true"

\* the isDefault column when the insert gives no value (schema default)
IsDefaultColumnDefault == FALSE

\* isDefault: shouldBeDefault, as the row stores it
StoredIsDefault(v) ==
    IF v = "undefined" THEN IsDefaultColumnDefault ELSE v = "true"

\* the id the store gives the new row
NewAccountId(acc) ==
    CHOOSE a \in AccountIds :
        acc[a] = NoAccount /\ \A b \in AccountIds : acc[b] = NoAccount => a <= b

\* rows in the table and inserts on their way: the table holds MaxAccounts rows
RoomInTable ==
    Cardinality({a \in AccountIds : account[a] # NoAccount})
      + Cardinality({q \in Procs : call[q].op = "createAccount"}) < MaxAccounts

\* how the guard of the route answers
ArcjetDecisions == {"allowed", "rateLimit", "blocked"}

\* what stops createAccount before its first read of the Account table
CreateError(clerkUserId, decision, balance) ==
    IF clerkUserId = NoAuth THEN "Unauthorized"
    ELSE IF decision = "rateLimit" THEN "Too many requests. Please try again later."
    ELSE IF decision = "blocked" THEN "Request blocked"
    ELSE IF findUser(clerkUserId) = NoUser THEN "User not found"
    ELSE IF parseFloat(balance).isNaN THEN "Invalid balance amount"
    ELSE "none"

\* auth, arcjet, user lookup, parseFloat, findMany, shouldBeDefault: up to the
\* next await (the updateMany when shouldBeDefault, else the create)
createAccount_findMany(p, clerkUserId, decision, balance, isDefault) ==
    /\ FreeSlot(p)
    /\ started < MaxRequests
    /\ RoomInTable
    /\ started' = started + 1
    /\ LET userId == findUser(clerkUserId)
           c == [NoCall EXCEPT !.op = "createAccount", !.userId = userId,
                               !.balance = balance, !.isDefault = isDefault,
                               !.pre = IsDefaultColumn(account)]
           n == Cardinality(AccountsOf(account, userId))
       IN  IF CreateError(clerkUserId, decision, balance) # "none"
           THEN /\ response' = Thrown(p, c, CreateError(clerkUserId, decision, balance))
                /\ UNCHANGED <<pc, call>>
           ELSE /\ call' = [call EXCEPT ![p] =
                      [c EXCEPT !.balanceFloat = parseFloat(balance).value,
                                !.existingAccounts = n,
                                !.shouldBeDefault = shouldBeDefault(n, isDefault)]]
                /\ pc' = [pc EXCEPT ![p] =
                      IF Truthy(shouldBeDefault(n, isDefault))
                      THEN "ca_updateMany" ELSE "ca_create"]
                /\ response' = NoResponse
    /\ UNCHANGED <<account, transaction, oneAtATime>>

\* if (shouldBeDefault) await db.account.updateMany(...)
createAccount_updateMany(p) ==
    /\ pc[p] = "ca_updateMany"
    /\ account' = updateManyClearDefault(account, call[p].userId)
    /\ pc' = [pc EXCEPT ![p] = "ca_create"]
    /\ response' = NoResponse
    /\ UNCHANGED <<transaction, call, started, oneAtATime>>

\* await db.account.create(...), serialize, revalidatePath, return
createAccount_create(p) ==
    /\ pc[p] = "ca_create"
    /\ LET id == NewAccountId(account)
           row == [userId |-> call[p].userId,
                   isDefault |-> StoredIsDefault(call[p].shouldBeDefault),
                   balance |-> call[p].balanceFloat]
       IN  /\ account' = [account EXCEPT ![id] = row]
           /\ response' = Success(p, call[p], RowData(id, row))
    /\ pc' = [pc EXCEPT ![p] = "idle"]
    /\ call' = [call EXCEPT ![p] = NoCall]
    /\ UNCHANGED <<transaction, started, oneAtATime>>

\* getUserAccounts: auth, user lookup, findMany of the user's accounts
getUserAccounts(p, clerkUserId) ==
    /\ FreeSlot(p)
    /\ started < MaxRequests
    /\ started' = started + 1
    /\ LET userId == findUser(clerkUserId)
           c == [NoCall EXCEPT !.op = "getUserAccounts", !.userId = userId]
       IN  response' =
             IF AuthError(clerkUserId) # "none"
             THEN Thrown(p, c, AuthError(clerkUserId))
             ELSE Returned(p, c, {RowData(a, account[a]) : a \in AccountsOf(account, userId)})
    /\ UNCHANGED <<account, transaction, pc, call, oneAtATime>>

\* DashboardPage: accounts?.find((account) => account.isDefault)
defaultAccount(rows) == {r \in rows : r.isDefault}

----------------------------------------------------------------------------
(* Ledger: the store holds accounts and transactions, requests delete *)

\* +amount for INCOME, -amount for EXPENSE
SignedAmount(row) == IF row.type = "INCOME" THEN row.amount ELSE -row.amount

RECURSIVE SignedSum(_, _)
SignedSum(S, trn) ==
    IF S = {} THEN 0
    ELSE LET t == CHOOSE x \in S : TRUE
         IN  SignedAmount(trn[t]) + SignedSum(S \ {t}, trn)

LinkedTo(trn, a) == {t \in TxIds : trn[t] # NoTransaction /\ trn[t].accountId = a}

LedgerOwner(a) == IF a = 3 THEN "u2" ELSE "u1"

\* Transaction rows are written by the transaction form, which is not among
\* these actions: a transaction's owner is the owner of its account
TransactionOwner(accountId) == LedgerOwner(accountId)
LedgerAccountIds == {1, 2, 3}

\* The Transaction table is filled by the transaction form, which is not part
\* of these actions: any linking and type, transaction t of amount t, owner
\* and account owner matching, balances equal to the signed sums.
InitLedgerStore ==
    /\ \E link \in [TxIds -> LedgerAccountIds], ty \in [TxIds -> {"INCOME", "EXPENSE"}] :
          transaction = [t \in TxIds |->
                            [userId |-> TransactionOwner(link[t]), accountId |-> link[t],
                             type |-> ty[t], amount |-> t]]
    /\ account = [a \in AccountIds |->
                    IF a \in LedgerAccountIds
                    THEN [userId |-> LedgerOwner(a), isDefault |-> a \in {1, 3},
                          balance |-> SignedSum(LinkedTo(transaction, a), transaction)]
                    ELSE NoAccount]
    /\ pc = [p \in Procs |-> "idle"]
    /\ call = [p \in Procs |-> NoCall]
    /\ response = NoResponse
    /\ started = 0

bulkDeleteTransactions_start ==
    \E p \in Procs, clerkUserId \in ClerkIds, transactionIds \in SUBSET TxIds :
        bulkDeleteTransactions_findMany(p, clerkUserId, transactionIds)

bulkDeleteTransactions_apply ==
    \E p \in Procs, fault \in 0..(MaxTx + 1) :
        bulkDeleteTransactions_transaction(p, fault)

NextLedger == bulkDeleteTransactions_start \/ bulkDeleteTransactions_apply

\* concurrent requests
InitLedger == InitLedgerStore /\ oneAtATime = FALSE
LedgerSpec == InitLedger /\ [][NextLedger]_vars

\* one request at a time
InitLedgerSerial == InitLedgerStore /\ oneAtATime = TRUE
LedgerSerialSpec == InitLedgerSerial /\ [][NextLedger]_vars

\* initial states in which no account has two transactions
InitLedgerOnePerAccount ==
    /\ InitLedger
    /\ \A a \in AccountIds : Cardinality(LinkedTo(transaction, a)) <= 1

LedgerRaceSpec == InitLedgerOnePerAccount /\ [][NextLedger]_vars

----------------------------------------------------------------------------
(* Properties of the ledger *)

\* the adjustment that undoes a transaction: +amount for EXPENSE, -amount for INCOME
ReversalDelta(row) == IF row.type = "EXPENSE" THEN row.amount ELSE -row.amount

RECURSIVE ReversalSum(_, _)
ReversalSum(S, trn) ==
    IF S = {} THEN 0
    ELSE LET t == CHOOSE x \in S : TRUE
         IN  ReversalDelta(trn[t]) + ReversalSum(S \ {t}, trn)

\* slot p ends its bulkDeleteTransactions in this step
BulkDeleteEnds(p) == pc[p] = "bd_transaction" /\ pc'[p] = "idle"

\* C3 (conservation, P1): a bulkDeleteTransactions that succeeds leaves every
\* account's balance at its balance before plus the sum of the reversal deltas
\* of the transactions of that account which the call deleted.
C3_Conservation ==
    [][\A p \in Procs :
         (BulkDeleteEnds(p) /\ response'.success) =>
            \A a \in AccountIds :
               account'[a].balance = account[a].balance +
                  ReversalSum({t \in LinkedTo(transaction, a) :
                                  transaction'[t] = NoTransaction}, transaction)]_vars

\* C4 (I2 under concurrent deletes): every account's balance equals the signed
\* sum of the transactions still linked to it, in every state the store is in
\* between the steps of concurrent bulkDeleteTransactions calls.
C4_BalanceMatchesTransactions ==
    \A a \in AccountIds :
        account[a] # NoAccount =>
            account[a].balance = SignedSum(LinkedTo(transaction, a), transaction)

\* C6 (atomicity, P5): the apply phase ends in one of two ways: it reports
\* failure and the Transaction table and every balance are as before, or it
\* reports success and the deletion and every balance increment are applied;
\* whenever the store fails under it, it is the first.
C6_AllOrNothing ==
    [][\A p \in Procs :
         BulkDeleteEnds(p) =>
            /\ response'.kind = "returned"
            /\ response'.storeFailed => ~response'.success
            /\ ~response'.success => (transaction' = transaction /\ account' = account)
            /\ response'.success =>
                 /\ transaction' = deleteMany(transaction, call[p].transactionIds,
                                              call[p].userId)
                 /\ \A a \in AccountIds :
                      account'[a].balance = account[a].balance +
                        IF \E i \in 1..Len(call[p].accountBalanceChanges) :
                              call[p].accountBalanceChanges[i].accountId = a
                        THEN LET i == CHOOSE j \in 1..Len(call[p].accountBalanceChanges) :
                                        call[p].accountBalanceChanges[j].accountId = a
                             IN  IncrementAmount(call[p].accountBalanceChanges[i].balanceChange)
                        ELSE 0]_vars

\* a call whose apply phase the store failed under, with transactions of the
\* caller resolved: they are still in the table
C6_Witness ==
    /\ response.request.op = "bulkDeleteTransactions"
    /\ response.storeFailed
    /\ ~response.success
    /\ MatchingTransactions(transaction, response.request.transactionIds,
                            response.request.userId) # {}

\* C7 (ownership filter, P2): a bulkDeleteTransactions by user u never deletes a
\* transaction that u does not own, changes no balance except through a
\* transaction of u named in the request, and a request naming no transaction
\* of u succeeds unless the store fails.
C7_OwnershipFilter ==
    [][\A p \in Procs :
         /\ pc[p] = "idle" /\ pc'[p] = "bd_transaction" =>
              \A i \in 1..Len(call'[p].accountBalanceChanges) :
                 \E t \in call'[p].transactionIds :
                    /\ transaction[t].userId = call'[p].userId
                    /\ transaction[t].accountId = call'[p].accountBalanceChanges[i].accountId
         /\ BulkDeleteEnds(p) =>
              /\ \A t \in TxIds :
                    transaction[t].userId # call[p].userId => transaction'[t] = transaction[t]
              /\ \A a \in AccountIds :
                    account'[a] # account[a] =>
                       \E i \in 1..Len(call[p].accountBalanceChanges) :
                          call[p].accountBalanceChanges[i].accountId = a
              /\ (call[p].accountBalanceChanges = <<>> /\ ~response'.storeFailed)
                    => response'.success]_vars

\* a successful call of u1 whose request named a transaction of u2, which is
\* still there
C7_Witness ==
    /\ response.request.op = "bulkDeleteTransactions"
    /\ response.success
    /\ \E t \in response.request.transactionIds :
          transaction[t] # NoTransaction /\ transaction[t].userId # response.request.userId

----------------------------------------------------------------------------
(* Arbiter: requests create accounts, switch the default, read the accounts *)

BalanceInputs == {<<"7">>, <<"7", "x">>, <<"x">>, <<>>}
IsDefaultInputs == {"true", "false", "undefined"}

\* u2 has one account; u1 has none, one or two, one of them the default
InitArbiterStore ==
    /\ \E n \in 0..2 : \E d \in 2..3 :
          /\ n = 0 => d = 2
          /\ n > 0 => d <= n + 1
          /\ account = [a \in AccountIds |->
                          IF a = 1 THEN [userId |-> "u2", isDefault |-> TRUE, balance |-> 7]
                          ELSE IF a <= n + 1
                               THEN [userId |-> "u1", isDefault |-> a = d, balance |-> 7]
                               ELSE NoAccount]
    /\ transaction = [t \in TxIds |-> NoTransaction]
    /\ pc = [p \in Procs |-> "idle"]
    /\ call = [p \in Procs |-> NoCall]
    /\ response = NoResponse
    /\ started = 0

updateDefaultAccount_start ==
    \E p \in Procs, clerkUserId \in ClerkIds, accountId \in AccountIds :
        updateDefaultAccount_updateMany(p, clerkUserId, accountId)

updateDefaultAccount_finish == \E p \in Procs : updateDefaultAccount_update(p)

createAccount_start ==
    \E p \in Procs, clerkUserId \in ClerkIds, decision \in ArcjetDecisions,
       balance \in BalanceInputs, isDefault \in IsDefaultInputs :
        createAccount_findMany(p, clerkUserId, decision, balance, isDefault)

createAccount_clear == \E p \in Procs : createAccount_updateMany(p)

createAccount_finish == \E p \in Procs : createAccount_create(p)

getUserAccounts_call ==
    \E p \in Procs, clerkUserId \in ClerkIds : getUserAccounts(p, clerkUserId)

NextSwitch ==
    updateDefaultAccount_start \/ updateDefaultAccount_finish \/ getUserAccounts_call

NextCreate == createAccount_start \/ createAccount_clear \/ createAccount_finish

NextArbiter == NextSwitch \/ NextCreate

\* all the requests of the arbiter, concurrently
InitArbiter == InitArbiterStore /\ oneAtATime = FALSE
ArbiterSpec == InitArbiter /\ [][NextArbiter]_vars

\* one request at a time
InitArbiterSerial == InitArbiterStore /\ oneAtATime = TRUE
ArbiterSerialSpec == InitArbiterSerial /\ [][NextArbiter]_vars

\* concurrent updateDefaultAccount and getUserAccounts requests only
SwitchSpec == InitArbiter /\ [][NextSwitch]_vars

\* concurrent createAccount requests only
CreateSpec == InitArbiter /\ [][NextCreate]_vars

----------------------------------------------------------------------------
(* Properties of the arbiter *)

Quiescent == \A p \in Procs : pc[p] = "idle"

\* I1 for user u: one default account when u has accounts, none otherwise
SingleDefault(u) ==
    IF AccountsOf(account, u) = {}
    THEN DefaultsOf(account, u) = {}
    ELSE Cardinality(DefaultsOf(account, u)) = 1

\* C1 (single default, I1/P3): after any sequence of createAccount and
\* updateDefaultAccount calls, each run to completion, every user with accounts
\* has exactly one default account and every user without has none.
C1_SingleDefault == Quiescent => \A u \in UserIds : SingleDefault(u)

\* slot p ends its updateDefaultAccount in this step
UpdateDefaultEnds(p) == pc[p] = "ud_update" /\ pc'[p] = "idle"

\* C2: updateDefaultAccount with an accountId that names no account of the
\* caller reports failure and leaves every isDefault flag as it was before the
\* call.
C2_FailedSwitchKeepsFlags ==
    [][\A p \in Procs :
         (UpdateDefaultEnds(p)
            /\ ~UpdateFindsRow(account, call[p].accountId, call[p].userId)) =>
               /\ ~response'.success
               /\ IsDefaultColumn(account') = call[p].pre]_vars

\* C5: when concurrent updateDefaultAccount calls of one user have ended, the
\* last of them with success, exactly one account of the user is the default.
C5_ConcurrentSwitchOneDefault ==
    (Quiescent /\ response.request.op = "updateDefaultAccount" /\ response.success) =>
        Cardinality(DefaultsOf(account, response.request.userId)) = 1

\* C8: a getUserAccounts that reads while an updateDefaultAccount of the same
\* user is between its two steps, and returns accounts, returns exactly one
\* default account.
C8_ReaderSeesOneDefault ==
    (/\ response.request.op = "getUserAccounts"
     /\ response.rows # {}
     /\ \E q \in Procs : pc[q] = "ud_update" /\ call[q].userId = response.request.userId)
        => Cardinality(defaultAccount(response.rows)) = 1

\* C9: after any interleaving of concurrent createAccount calls, every user
\* with accounts has exactly one default account.
C9_ConcurrentCreateOneDefault ==
    Quiescent => \A u \in UserIds : AccountsOf(account, u) # {} => SingleDefault(u)

\* C10 (first-account defaulting, P4): a createAccount that succeeds after
\* counting zero existing accounts of the user returns and stores an account
\* with isDefault = true, whatever flag was requested.
C10_FirstAccountIsDefault ==
    (/\ response.request.op = "createAccount"
     /\ response.success
     /\ response.request.existingAccounts = 0) =>
        /\ response.data.isDefault
        /\ account[response.data.id].isDefault

\* a first account created with isDefault: false requested, or none
C10_Witness ==
    /\ response.request.op = "createAccount"
    /\ response.success
    /\ response.request.existingAccounts = 0
    /\ response.request.isDefault \in {"false", "undefined"}
    /\ response.data.isDefault

----------------------------------------------------------------------------
(* Platform: the actions of the ledger and of the arbiter against one store *)

\* the store of the ledger with every transaction in an account of its own,
\* the first in the account of u2
InitPlatform ==
    /\ InitLedger
    /\ \A t \in TxIds : transaction[t].accountId = 3 - ((t - 1) % 3)

NextPlatform == NextLedger \/ NextArbiter

PlatformSpec == InitPlatform /\ [][NextPlatform]_vars

----------------------------------------------------------------------------
(* Properties of single calls *)

\* the Account table at the start of the call that slot p is ending, when no
\* other request ran in between: the rows of now under the flags of then
AccountAtStart(p) ==
    [a \in AccountIds |->
        IF account[a] = NoAccount THEN NoAccount
        ELSE [account[a] EXCEPT !.isDefault = call[p].pre[a]]]

\* C11 (idempotent default, P6): an updateDefaultAccount naming the account of
\* the caller that was the default when the call started reports success and
\* leaves the Account table, every isDefault flag with it, as it was at the
\* start; every successful call ends with the named account the only default
\* of the caller, so a second call in a row with the same account starts from
\* that state and ends in it.
C11_IdempotentDefault ==
    [][\A p \in Procs :
         UpdateDefaultEnds(p) =>
            /\ (/\ call[p].accountId \in AccountsOf(account, call[p].userId)
                /\ call[p].pre[call[p].accountId]) =>
                   /\ response'.success
                   /\ response'.data.id = call[p].accountId
                   /\ account' = AccountAtStart(p)
            /\ response'.success =>
                   DefaultsOf(account', call[p].userId) = {call[p].accountId}]_vars

\* a successful call on the account that was the default when the call
\* started, made by a user who owns a second account
C11_Witness ==
    /\ response.request.op = "updateDefaultAccount"
    /\ response.success
    /\ response.request.pre[response.request.accountId]
    /\ IsDefaultColumn(account) = response.request.pre
    /\ Cardinality(AccountsOf(account, response.request.userId)) > 1

ActingUser(p) == IF pc[p] = "idle" THEN call'[p].userId ELSE call[p].userId

\* C13 (frame across users): a step that bulkDeleteTransactions,
\* updateDefaultAccount or createAccount takes for user u leaves every account
\* row (balance and isDefault) and every transaction row owned by another
\* user as it was, and a call that ends before its first store step changes
\* nothing.
C13_OtherUsersUntouched ==
    [][/\ \A p \in Procs :
            pc'[p] # pc[p] =>
               /\ \A a \in AccountIds :
                     (account[a] # NoAccount /\ account[a].userId # ActingUser(p)) =>
                        account'[a] = account[a]
               /\ \A t \in TxIds :
                     (transaction[t] # NoTransaction
                        /\ transaction[t].userId # ActingUser(p)) =>
                        transaction'[t] = transaction[t]
       /\ pc' = pc => (account' = account /\ transaction' = transaction)]_vars

\* a createAccount of one user that cleared their default and inserted the
\* new one, with the default account and the transaction of another user
\* in the store
C13_Witness ==
    /\ response.request.op = "createAccount"
    /\ response.success
    /\ response.request.existingAccounts > 0
    /\ response.data.isDefault
    /\ \E a \in AccountIds :
          /\ account[a] # NoAccount
          /\ account[a].userId # response.request.userId
          /\ account[a].isDefault
          /\ LinkedTo(transaction, a) # {}

\* C14 (nothing resolved): a bulkDeleteTransactions whose id set is empty, or
\* names no transaction owned by the caller, aggregates no balance change,
\* deletes no transaction and changes no account, and returns success when
\* the store does not fail under it.
C14_NothingResolved ==
    [][\A p \in Procs :
         /\ (pc[p] = "idle" /\ pc'[p] = "bd_transaction") =>
               (MatchingTransactions(transaction, call'[p].transactionIds,
                                     call'[p].userId) = {}
                  <=> call'[p].accountBalanceChanges = <<>>)
         /\ (BulkDeleteEnds(p) /\ call[p].accountBalanceChanges = <<>>) =>
               /\ transaction' = transaction
               /\ account' = account
               /\ ~response'.storeFailed => response'.success]_vars

\* a successful call whose ids all name transactions of another user, which
\* are still in the table
C14_Witness ==
    /\ response.request.op = "bulkDeleteTransactions"
    /\ response.success
    /\ response.request.transactionIds # {}
    /\ \A t \in response.request.transactionIds :
          transaction[t] # NoTransaction /\ transaction[t].userId # response.request.userId

\* the accounts that have an entry in accountBalanceChanges
ChangedAccounts(changes) == {changes[i].accountId : i \in 1..Len(changes)}

\* C15 (frame of a successful delete): the accounts with an entry in
\* accountBalanceChanges are the accounts of the transactions the call
\* resolved; a bulkDeleteTransactions that succeeds leaves every other account
\* row (balance and isDefault) as it was, changes no isDefault flag at all,
\* leaves every transaction it did not resolve as it was, and leaves none of
\* the caller's transactions named in the request in the table, so that a
\* balance changes only for an account of a resolved, now deleted
\* transaction.
C15_UnresolvedUntouched ==
    [][\A p \in Procs :
         /\ (pc[p] = "idle" /\ pc'[p] = "bd_transaction") =>
               ChangedAccounts(call'[p].accountBalanceChanges) =
                  {transaction[t].accountId :
                      t \in MatchingTransactions(transaction, call'[p].transactionIds,
                                                 call'[p].userId)}
         /\ (BulkDeleteEnds(p) /\ response'.success) =>
               /\ \A a \in AccountIds \ ChangedAccounts(call[p].accountBalanceChanges) :
                     account'[a] = account[a]
               /\ IsDefaultColumn(account') = IsDefaultColumn(account)
               /\ \A t \in TxIds :
                     t \notin MatchingTransactions(transaction, call[p].transactionIds,
                                                   call[p].userId) =>
                        transaction'[t] = transaction[t]
               /\ MatchingTransactions(transaction', call[p].transactionIds,
                                       call[p].userId) = {}]_vars

\* a successful call that deleted a transaction of one account and left a
\* transaction of the caller in another account, with that account's balance
\* still the signed sum of its transactions
C15_Witness ==
    /\ response.request.op = "bulkDeleteTransactions"
    /\ response.success
    /\ \E t \in response.request.transactionIds : transaction[t] = NoTransaction
    /\ \E t \in TxIds :
          /\ transaction[t] # NoTransaction
          /\ transaction[t].userId = response.request.userId
          /\ account[transaction[t].accountId].balance =
                SignedSum(LinkedTo(transaction, transaction[t].accountId), transaction)

\* a balance that is not the decimal notation of a number
NonNumeric(s) == ~IsDecimalString(s)

\* C16 (validation before any write): a createAccount whose balance is not
\* numeric ends with an exception at the step that takes the request, and no
\* step of such a call writes the Account table: no row is created and no
\* isDefault flag is cleared, whatever isDefault the request asked for.
C16_NonNumericBalanceRejected ==
    [][\A p \in Procs :
         /\ (pc[p] = "idle" /\ call'[p].op = "createAccount") =>
               ~NonNumeric(call'[p].balance)
         /\ (/\ response'.slot = p
             /\ response'.request.op = "createAccount"
             /\ NonNumeric(response'.request.balance)) =>
                response'.kind = "thrown"
         /\ (call[p].op = "createAccount" /\ NonNumeric(call[p].balance)) =>
                account' = account]_vars

====
